---- MODULE Spec2Model ----
(***************************************************************************)
(* State-machine model of the mev-boost BoostService (server/service.go):  *)
(* the getHeader auction and its bid cache, the bid-cache sweeper, the     *)
(* getPayload redemption, the validator-registration fan-out and the       *)
(* status aggregator.                                                      *)
(*                                                                         *)
(* Time is a discrete clock `now` counted in ticks (TicksPerMinute ticks   *)
(* to the minute).  A sweeper whose time.Sleep has expired runs before the *)
(* clock advances further: scheduling latency and lock waits are below the *)
(* clock's resolution.                                                     *)
(***************************************************************************)
EXTENDS Naturals, Integers, Sequences, FiniteSets, TLC

(***************************************************************************)
(* Bounds of the model.                                                    *)
(***************************************************************************)
NumRelays == 2
NumHashes == 2
MaxValue == 2
NumHeaderReqs == 3
NumStarters == 2
NumPayloadReqs == 2
NumRegReqs == 2
NumMonitors == 1
NumStatusReqs == 2
TicksPerMinute == 2
MaxMinutes == 5
MaxKeySlot == 12
NumKeyHashes == 12

Relays == 1..NumRelays
Hashes == 0..(NumHashes - 1)
Values == 0..MaxValue
Slots == {1, 10}
MinBids == {0, MaxValue}
HeaderReqs == 1..NumHeaderReqs
Starters == 1..NumStarters
PayloadReqs == 1..NumPayloadReqs
RegReqs == 1..NumRegReqs
Monitors == 1..NumMonitors
StatusReqs == 1..NumStatusReqs
MaxTime == MaxMinutes * TicksPerMinute
KeySlots == 0..MaxKeySlot
KeyHashes == 0..(NumKeyHashes - 1)

(***************************************************************************)
(* Program constants.                                                      *)
(***************************************************************************)
SweepSleepMinutes == 1
BidMaxAgeMinutes == 3
StatusOK == 200
StatusNoContent == 204
StatusBadRequest == 400
StatusBadGateway == 502
StatusServiceUnavailable == 503

SweepPeriod == SweepSleepMinutes * TicksPerMinute
BidMaxAge == BidMaxAgeMinutes * TicksPerMinute

NoTimer == -1
NoStatus == 0

VARIABLES
  relayMinBid,   \* m.relayMinBid
  relayCheck,    \* m.relayCheck
  srv,           \* m.srv # nil
  startPc,       \* position of each StartHTTPServer call
  sweeper,       \* per started cleanup task: the tick its time.Sleep ends
  now,           \* wall clock, in ticks
  bids,          \* m.bids: bidKey -> bidResp
  hdr,           \* the getHeader requests being served
  committed,     \* history: per bidKey, the outcome of the last commit
  pay,           \* the getPayload requests being served
  reg,           \* the registerValidator requests being served
  st,            \* the status requests being served
  slotUID,       \* m.slotUID: the slot and uid of the Slot UID tracker
  keyProbe       \* a pair of bidKey computations on drawn inputs

vars == <<relayMinBid, relayCheck, srv, startPc, sweeper, now, bids, hdr, committed, pay, reg, st,
          slotUID, keyProbe>>
cfgVars == <<relayMinBid, relayCheck>>
srvVars == <<srv, startPc, sweeper>>

(***************************************************************************)
(* bidKey: fmt.Sprintf("%v%v", slot, blockHash), the slot in decimal       *)
(* followed by the hash as "0x" and fixed-width lower-case hex.            *)
(***************************************************************************)
DecDigits == <<"0", "1", "2", "3", "4", "5", "6", "7", "8", "9">>
HexDigits == <<"0", "1", "2", "3", "4", "5", "6", "7", "8", "9", "a", "b", "c", "d", "e", "f">>

RECURSIVE FormatUint(_)
FormatUint(n) ==
  IF n < 10 THEN DecDigits[n + 1]
  ELSE FormatUint(n \div 10) \o DecDigits[(n % 10) + 1]

HashString(h) == "0x" \o HexDigits[(h \div 16) + 1] \o HexDigits[(h % 16) + 1]

bidKeyPlainNumbers(slot, blockHash) == FormatUint(slot) \o FormatUint(blockHash)

bidKey(slot, blockHash) == FormatUint(slot) \o HashString(blockHash)

(***************************************************************************)
(* bidResp: the auction outcome.  The zero value has an empty response.    *)
(***************************************************************************)
EmptyBidResp == [empty |-> TRUE, slot |-> 0, value |-> 0, blockHash |-> 0, relays |-> {}, t |-> 0]

IsEmpty(result) == result.empty

(***************************************************************************)
(* What one relay answers to a header solicitation: a transport or         *)
(* protocol error, no bid (204), or a signed bid.  `wellFormed` stands for *)
(* the structural and cryptographic checks of the bid validator (known     *)
(* fork version, slot/parent/pubkey equal to the request's, signature,     *)
(* header block hash equal to the advertised one).                         *)
(***************************************************************************)
HeaderAnswers ==
  [kind : {"err", "nobid"}, value : {0}, blockHash : {0}, wellFormed : {FALSE}]
    \cup [kind : {"bid"}, value : Values, blockHash : Hashes, wellFormed : BOOLEAN]

\* Bid validator: a bid is usable iff it is a well-formed bid whose declared
\* value is positive and at least the configured minimum.
ValidBidAnyValue(ans, minBid) ==
  /\ ans.kind = "bid"
  /\ ans.wellFormed

ValidBid(ans, minBid) ==
  /\ ans.kind = "bid"
  /\ ans.wellFormed
  /\ ans.value > 0
  /\ ans.value >= minBid

\* Lexicographic order of two hashes' String(): the strings have the same
\* prefix and width, so they compare as their sequences of hex digits do.
HashNibbles(h) == <<h \div 16, h % 16>>

RECURSIVE LexLess(_, _)
LexLess(a, b) ==
  IF Len(b) = 0 THEN FALSE
  ELSE IF Len(a) = 0 THEN TRUE
  ELSE IF Head(a) # Head(b) THEN Head(a) < Head(b)
  ELSE LexLess(Tail(a), Tail(b))

\* Whether an arriving validated bid replaces the best bid so far.
OutbidsLastWinsTies(ans, result) ==
  \/ IsEmpty(result)
  \/ ans.value >= result.value

Outbids(ans, result) ==
  \/ IsEmpty(result)
  \/ ans.value > result.value
  \/ /\ ans.value = result.value
     /\ LexLess(HashNibbles(ans.blockHash), HashNibbles(result.blockHash))

(***************************************************************************)
(* A getPayload request.  originalBid is the bid cache's entry as read by  *)
(* the processor; result is the relays' payload (NoPayload until one is    *)
(* accepted); delivered is history: the block hashes of the non-empty,     *)
(* decodable payloads the relays returned; lookupLast is history: the last *)
(* outcome committed under the request's key when the cache was read;      *)
(* decodes is history: the shapes the body decodes as; uid is the uid the   *)
(* outbound calls carry and uidSlot the slot the tracker then records.     *)
(***************************************************************************)
NoPayload == [kind |-> "none", blockHash |-> 0]

IdlePayload ==
  [pc |-> "idle", slot |-> 0, blockHash |-> 0, shape |-> "none", pending |-> {},
   originalBid |-> EmptyBidResp, lookupLast |-> EmptyBidResp, result |-> NoPayload,
   delivered |-> {}, status |-> NoStatus, message |-> "", body |-> NoPayload,
   withholdingLogged |-> FALSE, relaysWithBid |-> {}, decodes |-> {}, uid |-> 0, uidSlot |-> 0]

(***************************************************************************)
(* A registerValidator request.  worker[r] is the position of the          *)
(* goroutine posting to relay r ("posting", then "ok" or "failed" once it  *)
(* has sent its result); got is history: the results received so far.      *)
(***************************************************************************)
IdleReg ==
  [pc |-> "idle", worker |-> [r \in Relays |-> "none"], monitor |-> [m \in Monitors |-> "none"],
   relayRespCh |-> <<>>, i |-> 0, got |-> <<>>, status |-> NoStatus, message |-> ""]

(***************************************************************************)
(* A status request.  code[r] is history: what relay r answered.           *)
(***************************************************************************)
IdleStatus ==
  [pc |-> "idle", pending |-> {}, code |-> [r \in Relays |-> "none"],
   numSuccessRequestsToRelay |-> 0, status |-> NoStatus]

(***************************************************************************)
(* The Slot UID tracker: &slotUID{}, slot 0 and the zero uid.  A uid is a  *)
(* number; a freshly generated uid is one no earlier uid equals.           *)
(***************************************************************************)
ZeroSlotUID == [slot |-> 0, uid |-> 0]

\* No bidKey computation made yet.
NoProbe ==
  [drawn |-> FALSE, slotA |-> 0, hashA |-> 0, slotB |-> 0, hashB |-> 0,
   keyA |-> "", keyB |-> "", hit |-> FALSE]

Init ==
  /\ relayMinBid \in MinBids
  /\ relayCheck \in BOOLEAN
  /\ srv = FALSE
  /\ startPc = [c \in Starters |-> "idle"]
  /\ sweeper = [c \in Starters |-> NoTimer]
  /\ now = 0
  /\ bids = <<>>
  /\ hdr = [h \in HeaderReqs |-> [pc |-> "idle", slot |-> 0, pending |-> {}, validated |-> {},
                                   underbid |-> {}, result |-> EmptyBidResp, status |-> NoStatus,
                                   message |-> "", uid |-> 0, uidSlot |-> 0]]
  /\ committed = <<>>
  /\ pay = [p \in PayloadReqs |-> IdlePayload]
  /\ reg = [q \in RegReqs |-> IdleReg]
  /\ st = [s \in StatusReqs |-> IdleStatus]
  /\ slotUID = ZeroSlotUID
  /\ keyProbe = NoProbe

(***************************************************************************)
(* StartHTTPServer: the nil check on m.srv, then (not atomically with it)  *)
(* the spawn of the cleanup task and the assignment of m.srv.              *)
(***************************************************************************)
StartCheck(c) ==
  /\ startPc[c] = "idle"
  /\ startPc' = [startPc EXCEPT ![c] = IF srv THEN "alreadyRunning" ELSE "checked"]
  /\ UNCHANGED <<cfgVars, srv, sweeper, now, bids, hdr, committed, pay, reg, st, slotUID, keyProbe>>

StartServe(c) ==
  /\ startPc[c] = "checked"
  /\ sweeper' = [sweeper EXCEPT ![c] = now + SweepPeriod]
  /\ srv' = TRUE
  /\ startPc' = [startPc EXCEPT ![c] = "serving"]
  /\ UNCHANGED <<cfgVars, now, bids, hdr, committed, pay, reg, st, slotUID, keyProbe>>

(***************************************************************************)
(* The clock.  It does not pass the end of a running sweeper's sleep       *)
(* before that sweeper has swept.                                          *)
(***************************************************************************)
Tick ==
  /\ now < MaxTime
  /\ \A c \in Starters : sweeper[c] # now
  /\ now' = now + 1
  /\ UNCHANGED <<cfgVars, srvVars, bids, hdr, committed, pay, reg, st, slotUID, keyProbe>>

(***************************************************************************)
(* startBidCacheCleanupTask: one iteration of the loop, after the sleep.   *)
(***************************************************************************)
ExpiredLate(bidResp, time) == time - bidResp.t > BidMaxAge + SweepPeriod

ExpiredAtLimit(bidResp, time) == time - bidResp.t >= BidMaxAge

Expired(bidResp, time) == time - bidResp.t > BidMaxAge

SweepBids(cache, time) ==
  [k \in {j \in DOMAIN cache : ~Expired(cache[j], time)} |-> cache[k]]

Sweep(c) ==
  /\ sweeper[c] = now
  /\ bids' = SweepBids(bids, now)
  /\ sweeper' = [sweeper EXCEPT ![c] = now + SweepPeriod]
  /\ UNCHANGED <<cfgVars, srv, startPc, now, hdr, committed, pay, reg, st, slotUID, keyProbe>>

(***************************************************************************)
(* handleGetHeader.                                                        *)
(***************************************************************************)
\* The tracker on a header request: a slot greater than the recorded one is
\* recorded with a fresh uid; the recorded slot or a smaller one changes
\* nothing.
NextSlotUIDOnChange(cur, slot) ==
  IF slot # cur.slot THEN [slot |-> slot, uid |-> cur.uid + 1] ELSE cur

NextSlotUID(cur, slot) ==
  IF slot > cur.slot THEN [slot |-> slot, uid |-> cur.uid + 1] ELSE cur

\* Entry: the slot route parameter is parsed (400 "invalid slot" if it is no
\* unsigned decimal integer); the auction rejects a malformed parent hash or
\* pubkey with an error (400 with the error's text) and otherwise consults
\* the tracker and starts its fan-out; the outbound calls carry the tracker's
\* current uid (uid, with uidSlot the slot the tracker then records).
HeaderStartIgnoresBadSlot(h, slotOK, paramsOK, slot) ==
  /\ srv
  /\ hdr[h].pc = "idle"
  /\ hdr' = [hdr EXCEPT ![h] =
       IF ~paramsOK
       THEN [@ EXCEPT !.pc = "done", !.slot = slot, !.status = StatusBadRequest,
                      !.message = "invalid hash or pubkey"]
       ELSE [@ EXCEPT !.pc = "wait", !.slot = slot, !.pending = Relays,
                      !.uid = NextSlotUID(slotUID, slot).uid,
                      !.uidSlot = NextSlotUID(slotUID, slot).slot]]
  /\ slotUID' = IF paramsOK THEN NextSlotUID(slotUID, slot) ELSE slotUID
  /\ UNCHANGED <<cfgVars, srvVars, now, bids, committed, pay, reg, st, keyProbe>>

HeaderStart(h, slotOK, paramsOK, slot) ==
  /\ srv
  /\ hdr[h].pc = "idle"
  /\ hdr' = [hdr EXCEPT ![h] =
       IF ~slotOK
       THEN [@ EXCEPT !.pc = "done", !.status = StatusBadRequest, !.message = "invalid slot"]
       ELSE IF ~paramsOK
       THEN [@ EXCEPT !.pc = "done", !.slot = slot, !.status = StatusBadRequest,
                      !.message = "invalid hash or pubkey"]
       ELSE [@ EXCEPT !.pc = "wait", !.slot = slot, !.pending = Relays,
                      !.uid = NextSlotUID(slotUID, slot).uid,
                      !.uidSlot = NextSlotUID(slotUID, slot).slot]]
  /\ slotUID' = IF slotOK /\ paramsOK THEN NextSlotUID(slotUID, slot) ELSE slotUID
  /\ UNCHANGED <<cfgVars, srvVars, now, bids, committed, pay, reg, st, keyProbe>>

\* One relay's worker finishes: a rejected or missing bid changes nothing, a
\* validated bid is recorded and replaces the best bid if it outbids it.
\* (underbid is history: the values of the well-formed bids rejected for
\* their value.)
HeaderRelay(h, r, ans) ==
  /\ hdr[h].pc = "wait"
  /\ r \in hdr[h].pending
  /\ hdr' = [hdr EXCEPT ![h] =
       IF ValidBid(ans, relayMinBid)
       THEN [@ EXCEPT !.pending = @ \ {r},
                      !.validated = @ \cup {[relay |-> r, value |-> ans.value, blockHash |-> ans.blockHash]},
                      !.result = IF Outbids(ans, hdr[h].result)
                                 THEN [empty |-> FALSE, slot |-> hdr[h].slot, value |-> ans.value,
                                       blockHash |-> ans.blockHash, relays |-> {}, t |-> 0]
                                 ELSE @]
       ELSE [@ EXCEPT !.pending = @ \ {r},
                      !.underbid = IF ans.kind = "bid" /\ ans.wellFormed THEN @ \cup {ans.value} ELSE @]]
  /\ UNCHANGED <<cfgVars, srvVars, now, bids, committed, pay, reg, st, slotUID, keyProbe>>

\* The relays that returned the winning (block hash, value).
OriginRelays(validated, result) ==
  {b.relay : b \in {v \in validated : v.blockHash = result.blockHash /\ v.value = result.value}}

\* m.bids[bidKey(slot, result.bidInfo.blockHash)] = result
PutBidKeepsFirst(cache, slot, result) ==
  LET key == bidKey(slot, result.blockHash)
  IN [k \in DOMAIN cache \cup {key} |-> IF k \in DOMAIN cache THEN cache[k] ELSE result]

PutBid(cache, slot, result) ==
  LET key == bidKey(slot, result.blockHash)
  IN [k \in DOMAIN cache \cup {key} |-> IF k = key THEN result ELSE cache[k]]

\* The join barrier and the rest of the handler: 204 on an empty result,
\* otherwise the result is committed to the cache and returned.
HeaderJoinNoEmptyCheck(h) ==
  /\ hdr[h].pc = "wait"
  /\ hdr[h].pending = {}
  /\ LET result == [hdr[h].result EXCEPT !.relays = OriginRelays(hdr[h].validated, hdr[h].result),
                                         !.t = now]
     IN /\ bids' = PutBid(bids, hdr[h].slot, result)
        /\ committed' = PutBid(committed, hdr[h].slot, result)
        /\ hdr' = [hdr EXCEPT ![h].pc = "done", ![h].status = StatusOK, ![h].result = result]
  /\ UNCHANGED <<cfgVars, srvVars, now, pay, reg, st, slotUID, keyProbe>>

HeaderJoin(h) ==
  /\ hdr[h].pc = "wait"
  /\ hdr[h].pending = {}
  /\ LET result == IF IsEmpty(hdr[h].result) THEN hdr[h].result
                   ELSE [hdr[h].result EXCEPT !.relays = OriginRelays(hdr[h].validated, hdr[h].result),
                                              !.t = now]
     IN IF IsEmpty(result)
        THEN /\ hdr' = [hdr EXCEPT ![h].pc = "done", ![h].status = StatusNoContent]
             /\ UNCHANGED <<bids, committed>>
        ELSE /\ bids' = PutBid(bids, hdr[h].slot, result)
             /\ committed' = PutBid(committed, hdr[h].slot, result)
             /\ hdr' = [hdr EXCEPT ![h].pc = "done", ![h].status = StatusOK, ![h].result = result]
  /\ UNCHANGED <<cfgVars, srvVars, now, pay, reg, st, slotUID, keyProbe>>

(***************************************************************************)
(* handleGetPayload.                                                       *)
(***************************************************************************)
\* What one relay answers to a payload request.
PayloadAnswers ==
  [kind : {"err", "empty", "undecodable"}, blockHash : {0}]
    \cup [kind : {"payload"}, blockHash : Hashes]

\* The processors accept a relay's response iff it is a non-empty payload
\* that decodes and whose block hash is the requested one.
AcceptsAnyHash(ans, blockHash) == ans.kind = "payload"

Accepts(ans, blockHash) == ans.kind = "payload" /\ ans.blockHash = blockHash

\* The processors' read of the bid cache.
LookupBid(cache, slot, blockHash) ==
  IF bidKey(slot, blockHash) \in DOMAIN cache THEN cache[bidKey(slot, blockHash)] ELSE EmptyBidResp

\* The shapes a body decodes as.
DecodesAs(decodesElectra, decodesDeneb) ==
  {x \in {"electra"} : decodesElectra} \cup {x \in {"deneb"} : decodesDeneb}

\* Entry: the body is read (400 if that fails) and decoded, as the Electra
\* shape first and as the Deneb shape if that fails (400 if both fail); the
\* shape's processor reads the bid cache and fans the request out to every
\* relay, each call carrying the tracker's current uid.
PayloadStartDenebFirst(p, readable, decodesElectra, decodesDeneb, slot, blockHash) ==
  /\ srv
  /\ pay[p].pc = "idle"
  /\ pay' = [pay EXCEPT ![p] =
       IF ~readable
       THEN [@ EXCEPT !.pc = "done", !.status = StatusBadRequest, !.message = "read error"]
       ELSE IF ~decodesElectra /\ ~decodesDeneb
       THEN [@ EXCEPT !.pc = "done", !.status = StatusBadRequest, !.message = "decode error"]
       ELSE [@ EXCEPT !.pc = "wait", !.slot = slot, !.blockHash = blockHash,
                      !.decodes = DecodesAs(decodesElectra, decodesDeneb),
                      !.shape = IF decodesDeneb THEN "deneb" ELSE "electra",
                      !.pending = Relays,
                      !.originalBid = LookupBid(bids, slot, blockHash),
                      !.lookupLast = LookupBid(committed, slot, blockHash),
                      !.uid = slotUID.uid, !.uidSlot = slotUID.slot]]
  /\ UNCHANGED <<cfgVars, srvVars, now, bids, hdr, committed, reg, st, slotUID, keyProbe>>

PayloadStart(p, readable, decodesElectra, decodesDeneb, slot, blockHash) ==
  /\ srv
  /\ pay[p].pc = "idle"
  /\ pay' = [pay EXCEPT ![p] =
       IF ~readable
       THEN [@ EXCEPT !.pc = "done", !.status = StatusBadRequest, !.message = "read error"]
       ELSE IF ~decodesElectra /\ ~decodesDeneb
       THEN [@ EXCEPT !.pc = "done", !.status = StatusBadRequest, !.message = "decode error"]
       ELSE [@ EXCEPT !.pc = "wait", !.slot = slot, !.blockHash = blockHash,
                      !.decodes = DecodesAs(decodesElectra, decodesDeneb),
                      !.shape = IF decodesElectra THEN "electra" ELSE "deneb",
                      !.pending = Relays,
                      !.originalBid = LookupBid(bids, slot, blockHash),
                      !.lookupLast = LookupBid(committed, slot, blockHash),
                      !.uid = slotUID.uid, !.uidSlot = slotUID.slot]]
  /\ UNCHANGED <<cfgVars, srvVars, now, bids, hdr, committed, reg, st, slotUID, keyProbe>>

\* One relay's worker finishes.  The first accepted response is the result
\* and cancels the requests still in flight.
PayloadRelay(p, r, ans) ==
  /\ pay[p].pc = "wait"
  /\ r \in pay[p].pending
  /\ pay' = [pay EXCEPT ![p] =
       [@ EXCEPT !.delivered = IF ans.kind = "payload" THEN @ \cup {ans.blockHash} ELSE @,
                 !.result = IF Accepts(ans, pay[p].blockHash) THEN ans ELSE @,
                 !.pending = IF Accepts(ans, pay[p].blockHash) THEN {} ELSE @ \ {r}]]
  /\ UNCHANGED <<cfgVars, srvVars, now, bids, hdr, committed, reg, st, slotUID, keyProbe>>

\* getPayloadResponseIsEmpty
PayloadResponseIsEmpty(result) == result.kind = "empty"

\* respondPayload: withholding is logged with the origin relays of the
\* original bid and answered 502; a payload is answered 200.
respondPayloadAndNotOr(req, result, originalBid) ==
  IF result.kind = "nil" /\ PayloadResponseIsEmpty(result)
  THEN [req EXCEPT !.pc = "done", !.status = StatusBadGateway,
                   !.message = "no successful relay response",
                   !.withholdingLogged = TRUE, !.relaysWithBid = originalBid.relays]
  ELSE [req EXCEPT !.pc = "done", !.status = StatusOK, !.body = result]

respondPayloadNamesAllRelays(req, result, originalBid) ==
  IF result.kind = "nil" \/ PayloadResponseIsEmpty(result)
  THEN [req EXCEPT !.pc = "done", !.status = StatusBadGateway,
                   !.message = "no successful relay response",
                   !.withholdingLogged = TRUE, !.relaysWithBid = Relays]
  ELSE [req EXCEPT !.pc = "done", !.status = StatusOK, !.body = result]

respondPayloadRequiresHit(req, result, originalBid) ==
  IF result.kind = "nil" \/ PayloadResponseIsEmpty(result) \/ IsEmpty(originalBid)
  THEN [req EXCEPT !.pc = "done", !.status = StatusBadGateway,
                   !.message = "no successful relay response",
                   !.withholdingLogged = TRUE, !.relaysWithBid = originalBid.relays]
  ELSE [req EXCEPT !.pc = "done", !.status = StatusOK, !.body = result]

respondPayload(req, result, originalBid) ==
  IF result.kind = "nil" \/ PayloadResponseIsEmpty(result)
  THEN [req EXCEPT !.pc = "done", !.status = StatusBadGateway,
                   !.message = "no successful relay response",
                   !.withholdingLogged = TRUE, !.relaysWithBid = originalBid.relays]
  ELSE [req EXCEPT !.pc = "done", !.status = StatusOK, !.body = result]

\* The processor returns (a nil or an empty result if no response was
\* accepted) and the handler responds.
PayloadRespond(p, noneKind) ==
  /\ pay[p].pc = "wait"
  /\ pay[p].pending = {}
  /\ LET result == IF pay[p].result = NoPayload
                   THEN [kind |-> noneKind, blockHash |-> 0]
                   ELSE pay[p].result
     IN pay' = [pay EXCEPT ![p] = respondPayload(pay[p], result, pay[p].originalBid)]
  /\ UNCHANGED <<cfgVars, srvVars, now, bids, hdr, committed, reg, st, slotUID, keyProbe>>

PayloadStepOf(reqs) ==
  \/ \E p \in reqs, readable, decodesElectra, decodesDeneb \in BOOLEAN,
        slot \in Slots, blockHash \in Hashes :
       PayloadStart(p, readable, decodesElectra, decodesDeneb, slot, blockHash)
  \/ \E p \in reqs, r \in Relays, ans \in PayloadAnswers : PayloadRelay(p, r, ans)
  \/ \E p \in reqs, noneKind \in {"nil", "empty"} : PayloadRespond(p, noneKind)

PayloadStep == PayloadStepOf(PayloadReqs)

(***************************************************************************)
(* handleRegisterValidator.                                                *)
(***************************************************************************)
\* Entry: the body is decoded; one goroutine per relay and the detached
\* monitor goroutines are started; the result channel has room for one
\* result per relay.
RegStart(q, decodes) ==
  /\ srv
  /\ reg[q].pc = "idle"
  /\ reg' = [reg EXCEPT ![q] =
       IF decodes
       THEN [@ EXCEPT !.pc = "recv", !.worker = [r \in Relays |-> "posting"],
                      !.monitor = [m \in Monitors |-> "posting"]]
       ELSE [@ EXCEPT !.pc = "done", !.status = StatusBadRequest, !.message = "decode error"]]
  /\ UNCHANGED <<cfgVars, srvVars, now, bids, hdr, committed, pay, st, slotUID, keyProbe>>

\* make(chan error, len(m.relays)): the capacity of the result channel.
RespChCapOneShort == Cardinality(Relays) - 1

RespChCap == Cardinality(Relays)

\* A relay's goroutine: its POST returns and it sends the error (or nil) on
\* the channel.  The send blocks while the channel is full.
RegWorker(q, r, ok) ==
  /\ reg[q].worker[r] = "posting"
  /\ Len(reg[q].relayRespCh) < RespChCap
  /\ reg' = [reg EXCEPT ![q].worker[r] = IF ok THEN "ok" ELSE "failed",
                        ![q].relayRespCh = Append(@, IF ok THEN "nil" ELSE "err")]
  /\ UNCHANGED <<cfgVars, srvVars, now, bids, hdr, committed, pay, st, slotUID, keyProbe>>

\* A monitor's goroutine: its POST returns; the outcome is only logged.
RegMonitor(q, m, ok) ==
  /\ reg[q].monitor[m] = "posting"
  /\ reg' = [reg EXCEPT ![q].monitor[m] = IF ok THEN "ok" ELSE "failed"]
  /\ UNCHANGED <<cfgVars, srvVars, now, bids, hdr, committed, pay, st, slotUID, keyProbe>>

\* The handler's receive loop: one result is taken from the channel; nil is
\* answered 200 at once, the last of len(m.relays) errors is answered 502.
RegRecvFailsFast(q) ==
  /\ reg[q].pc = "recv"
  /\ reg[q].relayRespCh # <<>>
  /\ LET respErr == Head(reg[q].relayRespCh)
         received == [reg[q] EXCEPT !.relayRespCh = Tail(@), !.got = Append(@, respErr)]
     IN reg' = [reg EXCEPT ![q] =
          IF respErr = "nil"
          THEN [received EXCEPT !.pc = "done", !.status = StatusOK]
          ELSE [received EXCEPT !.pc = "done", !.status = StatusBadGateway,
                                !.message = "no successful relay response"]]
  /\ UNCHANGED <<cfgVars, srvVars, now, bids, hdr, committed, pay, st, slotUID, keyProbe>>

RegRecvWaitsForMonitors(q) ==
  /\ reg[q].pc = "recv"
  /\ reg[q].relayRespCh # <<>>
  /\ \A m \in Monitors : reg[q].monitor[m] # "posting"
  /\ LET respErr == Head(reg[q].relayRespCh)
         received == [reg[q] EXCEPT !.relayRespCh = Tail(@), !.got = Append(@, respErr)]
     IN reg' = [reg EXCEPT ![q] =
          IF respErr = "nil"
          THEN [received EXCEPT !.pc = "done", !.status = StatusOK]
          ELSE IF reg[q].i + 1 < Cardinality(Relays)
          THEN [received EXCEPT !.i = @ + 1]
          ELSE [received EXCEPT !.i = @ + 1, !.pc = "done", !.status = StatusBadGateway,
                                !.message = "no successful relay response"]]
  /\ UNCHANGED <<cfgVars, srvVars, now, bids, hdr, committed, pay, st, slotUID, keyProbe>>

RegRecvWaitsForOneMore(q) ==
  /\ reg[q].pc = "recv"
  /\ reg[q].relayRespCh # <<>>
  /\ LET respErr == Head(reg[q].relayRespCh)
         received == [reg[q] EXCEPT !.relayRespCh = Tail(@), !.got = Append(@, respErr)]
     IN reg' = [reg EXCEPT ![q] =
          IF respErr = "nil"
          THEN [received EXCEPT !.pc = "done", !.status = StatusOK]
          ELSE IF reg[q].i + 1 < Cardinality(Relays) + 1
          THEN [received EXCEPT !.i = @ + 1]
          ELSE [received EXCEPT !.i = @ + 1, !.pc = "done", !.status = StatusBadGateway,
                                !.message = "no successful relay response"]]
  /\ UNCHANGED <<cfgVars, srvVars, now, bids, hdr, committed, pay, st, slotUID, keyProbe>>

RegRecv(q) ==
  /\ reg[q].pc = "recv"
  /\ reg[q].relayRespCh # <<>>
  /\ LET respErr == Head(reg[q].relayRespCh)
         received == [reg[q] EXCEPT !.relayRespCh = Tail(@), !.got = Append(@, respErr)]
     IN reg' = [reg EXCEPT ![q] =
          IF respErr = "nil"
          THEN [received EXCEPT !.pc = "done", !.status = StatusOK]
          ELSE IF reg[q].i + 1 < Cardinality(Relays)
          THEN [received EXCEPT !.i = @ + 1]
          ELSE [received EXCEPT !.i = @ + 1, !.pc = "done", !.status = StatusBadGateway,
                                !.message = "no successful relay response"]]
  /\ UNCHANGED <<cfgVars, srvVars, now, bids, hdr, committed, pay, st, slotUID, keyProbe>>

RegStep ==
  \/ \E q \in RegReqs, decodes \in BOOLEAN : RegStart(q, decodes)
  \/ \E q \in RegReqs, r \in Relays, ok \in BOOLEAN : RegWorker(q, r, ok)
  \/ \E q \in RegReqs, m \in Monitors, ok \in BOOLEAN : RegMonitor(q, m, ok)
  \/ \E q \in RegReqs : RegRecv(q)

(***************************************************************************)
(* handleStatus and CheckRelays.                                           *)
(***************************************************************************)
\* What a relay's status endpoint yields: a failed request or a status code
\* that SendHTTPRequest returns without error.
StatusAnswers == {"err", "200", "204"}

Is2xx(code) == code \in {"200", "204"}

\* Entry: with the relay check disabled the answer is 200 at once, otherwise
\* CheckRelays starts one goroutine per relay.
StatusStart(s) ==
  /\ srv
  /\ st[s].pc = "idle"
  /\ st' = [st EXCEPT ![s] =
       IF ~relayCheck
       THEN [@ EXCEPT !.pc = "done", !.status = StatusOK]
       ELSE [@ EXCEPT !.pc = "check", !.pending = Relays]]
  /\ UNCHANGED <<cfgVars, srvVars, now, bids, hdr, committed, pay, reg, slotUID, keyProbe>>

\* Whether a relay's answer counts as a success.
CountsAsSuccessAny2xx(code) == Is2xx(code)

CountsAsSuccess(code) == code = "200"

\* A relay's goroutine: the request returns; a success is counted.
StatusRelay(s, r, code) ==
  /\ st[s].pc = "check"
  /\ r \in st[s].pending
  /\ st' = [st EXCEPT ![s].pending = @ \ {r},
                      ![s].code[r] = code,
                      ![s].numSuccessRequestsToRelay = IF CountsAsSuccess(code) THEN @ + 1 ELSE @]
  /\ UNCHANGED <<cfgVars, srvVars, now, bids, hdr, committed, pay, reg, slotUID, keyProbe>>

\* wg.Wait() returns and handleStatus answers.
StatusRespondIfAllHealthy(s) ==
  /\ st[s].pc = "check"
  /\ st[s].pending = {}
  /\ st' = [st EXCEPT ![s].pc = "done",
                      ![s].status = IF st[s].numSuccessRequestsToRelay >= Cardinality(Relays)
                                    THEN StatusOK ELSE StatusServiceUnavailable]
  /\ UNCHANGED <<cfgVars, srvVars, now, bids, hdr, committed, pay, reg, slotUID, keyProbe>>

StatusRespond(s) ==
  /\ st[s].pc = "check"
  /\ st[s].pending = {}
  /\ st' = [st EXCEPT ![s].pc = "done",
                      ![s].status = IF st[s].numSuccessRequestsToRelay > 0
                                    THEN StatusOK ELSE StatusServiceUnavailable]
  /\ UNCHANGED <<cfgVars, srvVars, now, bids, hdr, committed, pay, reg, slotUID, keyProbe>>

StatusStep ==
  \/ \E s \in StatusReqs : StatusStart(s)
  \/ \E s \in StatusReqs, r \in Relays, code \in StatusAnswers : StatusRelay(s, r, code)
  \/ \E s \in StatusReqs : StatusRespond(s)

(***************************************************************************)
(* bidKey applied to two drawn (slot, block hash) pairs, and a lookup with *)
(* the second pair in a cache that holds an entry stored with the first.   *)
(***************************************************************************)
KeyDraw(slotA, hashA, slotB, hashB) ==
  /\ ~keyProbe.drawn
  /\ LET stored == [EmptyBidResp EXCEPT !.empty = FALSE, !.slot = slotA, !.blockHash = hashA]
     IN keyProbe' = [drawn |-> TRUE, slotA |-> slotA, hashA |-> hashA,
                     slotB |-> slotB, hashB |-> hashB,
                     keyA |-> bidKey(slotA, hashA), keyB |-> bidKey(slotB, hashB),
                     hit |-> ~IsEmpty(LookupBid(PutBid(<<>>, slotA, stored), slotB, hashB))]
  /\ UNCHANGED <<cfgVars, srvVars, now, bids, hdr, committed, pay, reg, st, slotUID>>

(***************************************************************************)
(* Specifications.  Spec is the whole service.  The others are the service *)
(* restricted to the operations one group of claims is about, started from *)
(* a configuration in which the operations left out play no part.          *)
(***************************************************************************)
Boot == StartCheck(1) \/ StartServe(1)

HeaderStepOf(reqs) ==
  \/ \E h \in reqs, slotOK, paramsOK \in BOOLEAN, slot \in Slots :
       HeaderStart(h, slotOK, paramsOK, slot)
  \/ \E h \in reqs, r \in Relays, ans \in HeaderAnswers : HeaderRelay(h, r, ans)
  \/ \E h \in reqs : HeaderJoin(h)

HeaderStep == HeaderStepOf(HeaderReqs)

\* The getHeader requests of the specifications about auctions: two
\* concurrent requests.
AuctionReqs == {h \in HeaderReqs : h <= 2}

Next ==
  \/ \E c \in Starters : StartCheck(c)
  \/ \E c \in Starters : StartServe(c)
  \/ Tick
  \/ \E c \in Starters : Sweep(c)
  \/ HeaderStep
  \/ PayloadStep
  \/ RegStep
  \/ StatusStep

Spec == Init /\ [][Next]_vars

\* Start-up: any number of StartHTTPServer calls in any interleaving, the
\* clock and the sweepers they start.
NextStart ==
  \/ \E c \in Starters : StartCheck(c)
  \/ \E c \in Starters : StartServe(c)
  \/ Tick
  \/ \E c \in Starters : Sweep(c)

SpecStart == Init /\ [][NextStart]_vars

\* The auction: one StartHTTPServer call, then two concurrent getHeader
\* requests.
InitAuction == Init /\ relayCheck = FALSE

NextAuction == Boot \/ HeaderStepOf(AuctionReqs)

SpecAuction == InitAuction /\ [][NextAuction]_vars

\* Redemption: one getPayload request concurrent with getHeader auctions in
\* which every bid is a valid bid of the highest value.
TopBids == [kind : {"bid"}, value : {MaxValue}, blockHash : Hashes, wellFormed : {TRUE}]

NoAnswer == [kind : {"err"}, value : {0}, blockHash : {0}, wellFormed : {FALSE}]

TopBidStep ==
  \/ \E h \in AuctionReqs, slot \in Slots : HeaderStart(h, TRUE, TRUE, slot)
  \/ \E h \in AuctionReqs, r \in Relays, ans \in TopBids \cup NoAnswer : HeaderRelay(h, r, ans)
  \/ \E h \in AuctionReqs : HeaderJoin(h)

InitPayload == Init /\ relayCheck = FALSE /\ relayMinBid = 0

NextPayload == Boot \/ TopBidStep \/ PayloadStepOf({1})

SpecPayload == InitPayload /\ [][NextPayload]_vars

\* Two getPayload requests side by side, concurrent with one auction: the
\* requests read the cache before or after the auction's commit.
AdvisoryStep ==
  \/ \E slot \in Slots : HeaderStart(1, TRUE, TRUE, slot)
  \/ \E r \in Relays, ans \in TopBids \cup NoAnswer : HeaderRelay(1, r, ans)
  \/ HeaderJoin(1)
  \/ \E p \in PayloadReqs, slot \in Slots, blockHash \in Hashes :
       PayloadStart(p, TRUE, TRUE, TRUE, slot, blockHash)
  \/ \E p \in PayloadReqs, r \in Relays, ans \in PayloadAnswers : PayloadRelay(p, r, ans)
  \/ \E p \in PayloadReqs, noneKind \in {"nil", "empty"} : PayloadRespond(p, noneKind)

NextAdvisory == Boot \/ AdvisoryStep

SpecAdvisory == InitPayload /\ [][NextAdvisory]_vars

\* The Slot UID tracker: getHeader requests for the same and for different
\* slots in any order (no relay answers with a bid), and one getPayload
\* request.
TrackerStep ==
  \/ \E h \in HeaderReqs, slot \in Slots : HeaderStart(h, TRUE, TRUE, slot)
  \/ \E h \in HeaderReqs, r \in Relays, ans \in NoAnswer : HeaderRelay(h, r, ans)
  \/ \E h \in HeaderReqs : HeaderJoin(h)
  \/ \E slot \in Slots, blockHash \in Hashes : PayloadStart(1, TRUE, TRUE, TRUE, slot, blockHash)
  \/ \E r \in Relays, ans \in PayloadAnswers : PayloadRelay(1, r, ans)
  \/ \E noneKind \in {"nil", "empty"} : PayloadRespond(1, noneKind)

NextTracker == Boot \/ TrackerStep

SpecTracker == InitPayload /\ [][NextTracker]_vars

\* bidKey on its own.
NextKey == \E slotA, slotB \in KeySlots, hashA, hashB \in KeyHashes : KeyDraw(slotA, hashA, slotB, hashB)

SpecKey == InitPayload /\ [][NextKey]_vars

\* Registration: one StartHTTPServer call, then registerValidator requests.
InitReg == Init /\ relayCheck = FALSE /\ relayMinBid = 0

NextReg == Boot \/ RegStep

SpecReg == InitReg /\ [][NextReg]_vars

\* Registration in which every relay POST returns (the HTTP client's
\* timeout ends it at the latest) and the handler's goroutine, when it can
\* receive, does.
RegFairness ==
  /\ \A q \in RegReqs, r \in Relays : WF_vars(\E ok \in BOOLEAN : RegWorker(q, r, ok))
  /\ \A q \in RegReqs : WF_vars(RegRecv(q))

SpecRegFair == SpecReg /\ RegFairness

\* Status: one StartHTTPServer call, then status requests.
InitStatus == Init /\ relayMinBid = 0

NextStatus == Boot \/ StatusStep

SpecStatus == InitStatus /\ [][NextStatus]_vars

\* The bid cache over time: the clock, the sweeper and getHeader auctions.
InitCache == Init /\ relayCheck = FALSE /\ relayMinBid = 0

NextCache ==
  \/ Boot
  \/ Tick
  \/ Sweep(1)
  \/ TopBidStep

SpecCache == InitCache /\ [][NextCache]_vars

(***************************************************************************)
(* Claims about the auction (SpecAuction).                                 *)
(***************************************************************************)
HeaderDone(h) == hdr[h].pc = "done" /\ hdr[h].status # StatusBadRequest

BidOf(b) == <<b.value, b.blockHash>>

\* C1: the bid getHeader returns is one of the validated bids, its value is
\* greater than or equal to every validated bid's, among the validated bids of
\* that value its block hash is the smallest, and so two requests that
\* validated the same bids return the same bid whatever the arrival order.
C1_BestBidSelected ==
  /\ \A h \in HeaderReqs :
       HeaderDone(h) /\ hdr[h].validated # {} =>
         /\ hdr[h].status = StatusOK
         /\ BidOf(hdr[h].result) \in {BidOf(v) : v \in hdr[h].validated}
         /\ \A v \in hdr[h].validated :
              /\ hdr[h].result.value >= v.value
              /\ v.value = hdr[h].result.value => hdr[h].result.blockHash <= v.blockHash
  /\ \A h1, h2 \in HeaderReqs :
       /\ HeaderDone(h1)
       /\ HeaderDone(h2)
       /\ {BidOf(v) : v \in hdr[h1].validated} = {BidOf(v) : v \in hdr[h2].validated}
       => BidOf(hdr[h1].result) = BidOf(hdr[h2].result)

\* A finished auction in which two relays tied on the highest value with
\* different block hashes.
C1_Witness ==
  \E h \in HeaderReqs :
    /\ HeaderDone(h)
    /\ hdr[h].status = StatusOK
    /\ \E v, w \in hdr[h].validated :
         /\ v.value = w.value
         /\ v.value = hdr[h].result.value
         /\ v.blockHash # w.blockHash

\* C2: a bid of value 0 or below relayMinBid is never returned and never
\* stored in the bid cache; when the best offer is exactly the minimum and
\* another relay offered minimum-1, the bid at the minimum is returned.
C2_MinBidRespected ==
  /\ \A h \in HeaderReqs :
       hdr[h].pc = "done" /\ hdr[h].status = StatusOK =>
         /\ hdr[h].result.value > 0
         /\ hdr[h].result.value >= relayMinBid
  /\ \A k \in DOMAIN bids : bids[k].value > 0 /\ bids[k].value >= relayMinBid
  /\ \A h \in HeaderReqs :
       /\ HeaderDone(h)
       /\ relayMinBid > 0
       /\ (relayMinBid - 1) \in hdr[h].underbid
       /\ \E v \in hdr[h].validated : v.value = relayMinBid
       /\ \A v \in hdr[h].validated : v.value <= relayMinBid
       => /\ hdr[h].status = StatusOK
          /\ hdr[h].result.value = relayMinBid

\* One relay offered the minimum, another minimum-1, and the auction is over.
C2_Witness ==
  \E h \in HeaderReqs :
    /\ HeaderDone(h)
    /\ relayMinBid > 1
    /\ (relayMinBid - 1) \in hdr[h].underbid
    /\ \E v \in hdr[h].validated : v.value = relayMinBid
    /\ bidKey(hdr[h].slot, hdr[h].result.blockHash) \in DOMAIN bids

\* C7: an auction without a validated bid answers 204 and leaves the bid
\* cache as it was; every entry of the cache holds a non-empty winning bid
\* with at least one origin relay.
C7_JoinWithoutBid(h) ==
  /\ hdr[h].pc = "wait"
  /\ hdr'[h].pc = "done"
  /\ hdr[h].validated = {}

C7_NoBidNoEntry ==
  /\ [](\A k \in DOMAIN bids : ~IsEmpty(bids[k]) /\ bids[k].relays # {})
  /\ [](\A h \in HeaderReqs : HeaderDone(h) => (hdr[h].status = StatusNoContent <=> hdr[h].validated = {}))
  /\ [][\A h \in HeaderReqs : C7_JoinWithoutBid(h) => hdr'[h].status = StatusNoContent /\ bids' = bids]_vars

\* An auction ended 204 while the cache holds the entry of an earlier one.
C7_Witness ==
  \E h \in HeaderReqs :
    /\ hdr[h].pc = "done"
    /\ hdr[h].status = StatusNoContent
    /\ DOMAIN bids # {}

(***************************************************************************)
(* Claims about redemption (SpecPayload).                                  *)
(***************************************************************************)
PayloadDone(p) == pay[p].pc = "done" /\ pay[p].status # StatusBadRequest

C4_WithholdingIs502 ==
  \A p \in PayloadReqs :
    PayloadDone(p) =>
      /\ pay[p].status \in {StatusOK, StatusBadGateway}
      /\ (pay[p].delivered = {} \/ pay[p].result = NoPayload) =>
           /\ pay[p].status = StatusBadGateway
           /\ pay[p].message = "no successful relay response"
           /\ pay[p].body = NoPayload
      /\ pay[p].blockHash \in pay[p].delivered =>
           /\ pay[p].status = StatusOK
           /\ pay[p].body = [kind |-> "payload", blockHash |-> pay[p].blockHash]

\* A request that ended 502 because no relay delivered a payload.
C4_Witness ==
  \E p \in PayloadReqs :
    /\ PayloadDone(p)
    /\ pay[p].delivered = {}
    /\ pay[p].status = StatusBadGateway

\* C5 as stated: when a request ends in withholding and the cache holds an
\* entry for its key, the log names the origin relays of the last auction
\* committed under that key.
C5_RespondsWithholding(p) == pay[p].pc = "wait" /\ pay'[p].withholdingLogged

C5_LogNamesLatestAuction ==
  [][\A p \in PayloadReqs :
       C5_RespondsWithholding(p) /\ bidKey(pay[p].slot, pay[p].blockHash) \in DOMAIN bids' =>
         pay'[p].relaysWithBid = committed'[bidKey(pay[p].slot, pay[p].blockHash)].relays]_vars

\* C5 as amended: when a request ends in withholding and the cache held an
\* entry for its key when the request read it, the log names exactly the
\* origin relays of the last auction committed under that key before that
\* read; the origin relays of an auction are the relays that returned the
\* winning block hash and value.  On a miss the log names no relay.
C5_LogNamesAuctionAtLookup ==
  /\ \A p \in PayloadReqs :
       pay[p].withholdingLogged =>
         IF IsEmpty(pay[p].originalBid)
         THEN pay[p].relaysWithBid = {}
         ELSE /\ pay[p].originalBid = pay[p].lookupLast
              /\ pay[p].relaysWithBid = pay[p].lookupLast.relays
              /\ pay[p].relaysWithBid # {}
  /\ \A h \in HeaderReqs :
       hdr[h].pc = "done" /\ hdr[h].status = StatusOK =>
         \A r \in Relays :
           r \in hdr[h].result.relays <=>
             \E v \in hdr[h].validated : v.relay = r /\ BidOf(v) = BidOf(hdr[h].result)

\* Withholding after a cache hit, logged while an auction for the same key
\* had a relay whose bid lost.
C5_Witness ==
  \E p \in PayloadReqs, h \in HeaderReqs :
    /\ pay[p].withholdingLogged
    /\ ~IsEmpty(pay[p].originalBid)
    /\ hdr[h].pc = "done"
    /\ hdr[h].result = pay[p].originalBid
    /\ \E v \in hdr[h].validated : v.relay \notin pay[p].relaysWithBid

(***************************************************************************)
(* Claims about the bid cache over time (SpecCache).                       *)
(***************************************************************************)
Age(bidResp) == now - bidResp.t

SweepStep(c) == sweeper[c] = now /\ sweeper'[c] = now + SweepPeriod

C10_Commits(h, k) ==
  /\ hdr[h].pc = "wait"
  /\ hdr'[h].pc = "done"
  /\ hdr'[h].status = StatusOK
  /\ k = bidKey(hdr[h].slot, hdr'[h].result.blockHash)

C10_OneEntryLastWins ==
  /\ [](\A k1, k2 \in DOMAIN bids :
          bids[k1].slot = bids[k2].slot /\ bids[k1].blockHash = bids[k2].blockHash => k1 = k2)
  /\ [](\A k \in DOMAIN bids : k = bidKey(bids[k].slot, bids[k].blockHash))
  /\ [][\A h \in HeaderReqs : \A k \in DOMAIN bids' :
          C10_Commits(h, k) => bids'[k] = hdr'[h].result /\ bids'[k].t = now]_vars
  /\ [][\A k \in DOMAIN bids \cap DOMAIN bids' :
          bids'[k] # bids[k] => \E h \in HeaderReqs : C10_Commits(h, k)]_vars

\* Two auctions committed different outcomes under one key; the cache holds
\* the outcome of the later one.
C10_Witness ==
  \E h1, h2 \in HeaderReqs :
    /\ hdr[h1].pc = "done" /\ hdr[h1].status = StatusOK
    /\ hdr[h2].pc = "done" /\ hdr[h2].status = StatusOK
    /\ hdr[h1].slot = hdr[h2].slot
    /\ hdr[h1].result.blockHash = hdr[h2].result.blockHash
    /\ hdr[h1].result.t < hdr[h2].result.t
    /\ hdr[h1].result.relays # hdr[h2].result.relays
    /\ bidKey(hdr[h2].slot, hdr[h2].result.blockHash) \in DOMAIN bids
    /\ bids[bidKey(hdr[h2].slot, hdr[h2].result.blockHash)] = hdr[h2].result

(***************************************************************************)
(* Claims about registration (SpecReg).                                    *)
(***************************************************************************)
\* C6: a decodable registration is answered 200 only if a relay's POST
\* succeeded and 502 only after the POSTs to all relays failed; the 200 is
\* sent on receiving the first successful result (every result received
\* before it is an error, none is received after it), so the handler never
\* holds a received success without having answered.
C6_FirstSuccessAnswers ==
  \A q \in RegReqs :
    /\ reg[q].pc = "done" /\ reg[q].status # StatusBadRequest =>
         reg[q].status \in {StatusOK, StatusBadGateway}
    /\ reg[q].status = StatusOK =>
         /\ \E r \in Relays : reg[q].worker[r] = "ok"
         /\ reg[q].got # <<>>
         /\ \A n \in 1..Len(reg[q].got) : reg[q].got[n] = "nil" <=> n = Len(reg[q].got)
    /\ reg[q].status = StatusBadGateway =>
         /\ \A r \in Relays : reg[q].worker[r] = "failed"
         /\ Len(reg[q].got) = Cardinality(Relays)
    /\ reg[q].pc = "recv" =>
         /\ Len(reg[q].got) < Cardinality(Relays)
         /\ \A n \in 1..Len(reg[q].got) : reg[q].got[n] = "err"

\* A 200 sent while the goroutine of a relay that had not answered was
\* still posting.
C6_Witness ==
  \E q \in RegReqs :
    /\ reg[q].status = StatusOK
    /\ \E r \in Relays : reg[q].worker[r] = "posting"

(***************************************************************************)
(* Claims about the status endpoint (SpecStatus).                          *)
(***************************************************************************)
\* C8 as stated: the status endpoint answers 200 if the relay check is
\* disabled or some relay is reachable and returns a 2xx status, and 503
\* otherwise.
C8_Any2xxIsHealthy ==
  \A s \in StatusReqs :
    st[s].pc = "done" =>
      st[s].status = IF ~relayCheck \/ \E r \in Relays : Is2xx(st[s].code[r])
                     THEN StatusOK ELSE StatusServiceUnavailable

\* C8 as amended: the status endpoint answers 200 if the relay check is
\* disabled or some relay is reachable and returns status 200, and 503
\* otherwise; with the check enabled it answers 503 exactly when no relay
\* returned 200.
C8_Only200IsHealthy ==
  \A s \in StatusReqs :
    st[s].pc = "done" =>
      /\ st[s].status = IF ~relayCheck \/ \E r \in Relays : st[s].code[r] = "200"
                        THEN StatusOK ELSE StatusServiceUnavailable
      /\ relayCheck => st[s].numSuccessRequestsToRelay =
                         Cardinality({r \in Relays : st[s].code[r] = "200"})

\* The check is enabled, one relay is down, another returned 200, and the
\* answer is 200.
C8_Witness ==
  \E s \in StatusReqs :
    /\ relayCheck
    /\ st[s].pc = "done"
    /\ st[s].status = StatusOK
    /\ \E r \in Relays : st[s].code[r] = "err"
    /\ \E r \in Relays : st[s].code[r] = "200"

(***************************************************************************)
(* Claims about the bid cache as seen by getPayload (SpecAdvisory).        *)
(***************************************************************************)
\* C11: what getPayload answers does not depend on what the bid cache held:
\* two decodable requests for the same slot and block hash to which the
\* relays delivered the same payloads get the same status and the same
\* body, whether the lookup hit or missed, and a request to which a relay
\* delivered the requested payload is answered 200 with it even on a miss.
C11_CacheIsAdvisory ==
  /\ \A p1, p2 \in PayloadReqs :
       ( /\ PayloadDone(p1)
         /\ PayloadDone(p2)
         /\ pay[p1].slot = pay[p2].slot
         /\ pay[p1].blockHash = pay[p2].blockHash
         /\ pay[p1].delivered = pay[p2].delivered )
       => /\ pay[p1].status = pay[p2].status
          /\ pay[p1].body = pay[p2].body
  /\ \A p \in PayloadReqs :
       (PayloadDone(p) /\ IsEmpty(pay[p].originalBid) /\ pay[p].blockHash \in pay[p].delivered)
       => /\ pay[p].status = StatusOK
          /\ pay[p].body = [kind |-> "payload", blockHash |-> pay[p].blockHash]

\* Two requests for the same key with the same deliveries, one read the
\* cache before the auction's commit (a miss) and one after it (a hit), both
\* answered 200.
C11_Witness ==
  \E p1, p2 \in PayloadReqs :
    /\ PayloadDone(p1)
    /\ PayloadDone(p2)
    /\ pay[p1].slot = pay[p2].slot
    /\ pay[p1].blockHash = pay[p2].blockHash
    /\ pay[p1].delivered = pay[p2].delivered
    /\ IsEmpty(pay[p1].originalBid)
    /\ ~IsEmpty(pay[p2].originalBid)
    /\ pay[p1].status = StatusOK
    /\ pay[p2].status = StatusOK

(***************************************************************************)
(* Claims about the Slot UID tracker (SpecTracker).                        *)
(***************************************************************************)
\* A request whose outbound calls have been made.
HeaderCalled(h) == hdr[h].pc \in {"wait", "done"} /\ hdr[h].status # StatusBadRequest

PayloadCalled(p) == pay[p].pc \in {"wait", "done"} /\ pay[p].status # StatusBadRequest

\* C12 as stated, its conclusion: the outbound calls of any two getHeader
\* requests for the same slot carry the same uid.
C12_OneUidPerSlot ==
  \A h1, h2 \in HeaderReqs :
    (HeaderCalled(h1) /\ HeaderCalled(h2) /\ hdr[h1].slot = hdr[h2].slot)
    => hdr[h1].uid = hdr[h2].uid

\* C12: the tracker's slot never decreases; the uid changes only when the
\* slot grows, and then to a uid no call has carried; a request for the
\* recorded slot or a smaller one leaves slot and uid unchanged; all
\* outbound calls made for a slot while it is the recorded slot carry the
\* same uid, the one recorded with that slot.
C12_UidStableWhileSlotCurrent ==
  /\ [][ /\ slotUID'.slot >= slotUID.slot
         /\ slotUID'.uid # slotUID.uid =>
              /\ slotUID'.slot > slotUID.slot
              /\ \A h \in HeaderReqs : HeaderCalled(h) => hdr[h].uid # slotUID'.uid
              /\ \A p \in PayloadReqs : PayloadCalled(p) => pay[p].uid # slotUID'.uid
         /\ slotUID'.slot = slotUID.slot => slotUID'.uid = slotUID.uid
         /\ \A h \in HeaderReqs :
              (hdr[h].pc = "idle" /\ hdr'[h].pc = "wait") =>
                /\ hdr'[h].slot > slotUID.slot => slotUID'.slot = hdr'[h].slot
                /\ hdr'[h].slot <= slotUID.slot => slotUID' = slotUID
                /\ hdr'[h].uid = slotUID'.uid ]_vars
  /\ [](\A h1, h2 \in HeaderReqs :
          ( /\ HeaderCalled(h1) /\ hdr[h1].uidSlot = hdr[h1].slot
            /\ HeaderCalled(h2) /\ hdr[h2].uidSlot = hdr[h2].slot
            /\ hdr[h1].slot = hdr[h2].slot )
          => hdr[h1].uid = hdr[h2].uid)
  /\ [](\A h \in HeaderReqs, p \in PayloadReqs :
          ( /\ HeaderCalled(h) /\ hdr[h].uidSlot = hdr[h].slot
            /\ PayloadCalled(p) /\ pay[p].uidSlot = pay[p].slot
            /\ hdr[h].slot = pay[p].slot )
          => hdr[h].uid = pay[p].uid)

\* A request for a slot, then two for a greater slot: the uid was replaced
\* once and reused once; and a getPayload for the recorded slot carries its
\* uid.
C12_Witness ==
  \E h1, h2, h3 \in HeaderReqs :
    /\ HeaderCalled(h1) /\ HeaderCalled(h2) /\ HeaderCalled(h3)
    /\ h2 # h3
    /\ hdr[h1].slot < hdr[h2].slot
    /\ hdr[h1].uidSlot = hdr[h1].slot
    /\ hdr[h2].slot = hdr[h3].slot
    /\ hdr[h2].uid = hdr[h3].uid
    /\ hdr[h1].uid # hdr[h2].uid
    /\ slotUID = [slot |-> hdr[h2].slot, uid |-> hdr[h2].uid]
    /\ PayloadCalled(1) /\ pay[1].slot = slotUID.slot /\ pay[1].uid = slotUID.uid

(***************************************************************************)
(* Claims about StartHTTPServer (SpecStart).                               *)
(***************************************************************************)
\* C13: among the StartHTTPServer calls, concurrent ones included, at most
\* one passes the check, creates the server and starts a sweeper; every
\* other call returns 'server already running'.
C13_StartedAtMostOnce ==
  /\ Cardinality({c \in Starters : startPc[c] \in {"checked", "serving"}}) <= 1
  /\ Cardinality({c \in Starters : sweeper[c] # NoTimer}) <= 1
  /\ \A c \in Starters :
       (startPc[c] # "idle" /\ \E d \in Starters \ {c} : startPc[d] = "serving")
       => startPc[c] \in {"serving", "alreadyRunning"}

(***************************************************************************)
(* Claims about getHeader's error responses (SpecAuction).                 *)
(***************************************************************************)
\* C14: a getHeader whose slot is no unsigned decimal integer is answered
\* 400 with the message "invalid slot", contacts no relay and leaves the
\* bid cache and the Slot UID tracker unchanged; a getHeader the auction
\* rejects for a malformed parent hash or pubkey is answered 400 with the
\* error's message and leaves the bid cache unchanged; a request answered
\* 400 has no relay call in flight and has received no bid.
C14_BadRequestTouchesNothing ==
  /\ [][\A h \in HeaderReqs, slot \in Slots :
         /\ \A paramsOK \in BOOLEAN :
              HeaderStart(h, FALSE, paramsOK, slot) =>
                /\ hdr'[h].pc = "done"
                /\ hdr'[h].status = StatusBadRequest
                /\ hdr'[h].message = "invalid slot"
                /\ hdr'[h].pending = {}
                /\ bids' = bids
                /\ slotUID' = slotUID
         /\ HeaderStart(h, TRUE, FALSE, slot) =>
                /\ hdr'[h].pc = "done"
                /\ hdr'[h].status = StatusBadRequest
                /\ hdr'[h].message # ""
                /\ hdr'[h].pending = {}
                /\ bids' = bids ]_vars
  /\ [](\A h \in HeaderReqs :
          hdr[h].status = StatusBadRequest =>
            /\ hdr[h].pc = "done"
            /\ hdr[h].pending = {}
            /\ hdr[h].validated = {}
            /\ hdr[h].underbid = {})

\* With a bid in the cache and a uid recorded, a request was answered 400
\* for its slot.
C14_Witness ==
  \E h \in HeaderReqs :
    /\ hdr[h].status = StatusBadRequest
    /\ hdr[h].message = "invalid slot"
    /\ bids # <<>>
    /\ slotUID # ZeroSlotUID

(***************************************************************************)
(* Claims about bidKey (SpecKey).                                          *)
(***************************************************************************)
\* C15: bidKey depends on the slot and the block hash only and is
\* injective: two (slot, block hash) pairs have the same key exactly when
\* they are the same pair, so a lookup hits an entry exactly when it was
\* stored with the lookup's slot and block hash.
C15_BidKeyInjective ==
  keyProbe.drawn =>
    /\ keyProbe.keyA = bidKey(keyProbe.slotA, keyProbe.hashA)
    /\ keyProbe.keyB = bidKey(keyProbe.slotB, keyProbe.hashB)
    /\ (keyProbe.keyA = keyProbe.keyB)
         <=> (keyProbe.slotA = keyProbe.slotB /\ keyProbe.hashA = keyProbe.hashB)
    /\ keyProbe.hit
         <=> (keyProbe.slotA = keyProbe.slotB /\ keyProbe.hashA = keyProbe.hashB)

\* Two different pairs whose decimal digits run together to the same
\* string (slot 1 with hash 10, slot 11 with hash 0) have different keys
\* and the lookup misses.
C15_Witness ==
  /\ keyProbe.drawn
  /\ FormatUint(keyProbe.slotA) \o FormatUint(keyProbe.hashA)
       = FormatUint(keyProbe.slotB) \o FormatUint(keyProbe.hashB)
  /\ <<keyProbe.slotA, keyProbe.hashA>> # <<keyProbe.slotB, keyProbe.hashB>>
  /\ keyProbe.keyA # keyProbe.keyB
  /\ ~keyProbe.hit

(***************************************************************************)
(* Claims about getPayload's decoding (SpecPayload).                       *)
(***************************************************************************)
\* C16: a getPayload body that was read is answered 400 exactly when it
\* decodes as neither shape; otherwise it is handled by one processor, the
\* Electra one whenever the body decodes as Electra and the Deneb one only
\* when it decodes as Deneb alone; and the request is answered once: its
\* status and body, once written, do not change.
C16_ElectraFirstOneAnswer ==
  /\ [](\A p \in PayloadReqs :
          /\ (pay[p].pc = "done" /\ pay[p].message # "read error") =>
               (pay[p].status = StatusBadRequest <=> pay[p].decodes = {})
          /\ pay[p].pc \in {"wait", "done"} /\ pay[p].decodes # {} =>
               /\ pay[p].shape \in pay[p].decodes
               /\ "electra" \in pay[p].decodes => pay[p].shape = "electra"
          /\ pay[p].decodes = {} => pay[p].shape = "none"
          /\ pay[p].status # NoStatus <=> pay[p].pc = "done")
  /\ [][\A p \in PayloadReqs :
         pay[p].status # NoStatus =>
           /\ pay'[p].status = pay[p].status
           /\ pay'[p].body = pay[p].body
           /\ pay'[p].message = pay[p].message ]_vars

\* A request whose body decodes as both shapes was handled by the Electra
\* processor and answered 200.
C16_Witness ==
  \E p \in PayloadReqs :
    /\ pay[p].pc = "done"
    /\ pay[p].decodes = {"electra", "deneb"}
    /\ pay[p].shape = "electra"
    /\ pay[p].status = StatusOK

(***************************************************************************)
(* Claims about registration's monitors and workers (SpecReg).             *)
(***************************************************************************)
\* C17: the relay monitors have no part in the registration response: two
\* requests that received the same relay results have the same status and
\* message whatever their monitors did; the handler can take a result from
\* the channel whenever one is there, whether or not a monitor has
\* answered; and a monitor's answer changes nothing of the request but the
\* monitor's own position.
C17_MonitorsDoNotMatter ==
  /\ [](\A q1, q2 \in RegReqs :
          ( /\ reg[q1].pc = "done" /\ reg[q1].status # StatusBadRequest
            /\ reg[q2].pc = "done" /\ reg[q2].status # StatusBadRequest
            /\ reg[q1].got = reg[q2].got )
          => /\ reg[q1].status = reg[q2].status
             /\ reg[q1].message = reg[q2].message)
  /\ [](\A q \in RegReqs :
          (reg[q].pc = "recv" /\ reg[q].relayRespCh # <<>>) => ENABLED RegRecv(q))
  /\ [][\A q \in RegReqs, m \in Monitors :
         reg'[q].monitor[m] # reg[q].monitor[m] /\ reg[q].pc # "idle" =>
           reg' = [reg EXCEPT ![q].monitor[m] = reg'[q].monitor[m]] ]_vars

\* Two requests answered 200 on the same relay results: the monitor of one
\* has not answered, that of the other has failed.
C17_Witness ==
  \E q1, q2 \in RegReqs, m \in Monitors :
    /\ reg[q1].pc = "done"
    /\ reg[q2].pc = "done"
    /\ reg[q1].got = reg[q2].got
    /\ reg[q1].status = StatusOK
    /\ reg[q2].status = StatusOK
    /\ reg[q1].monitor[m] = "posting"
    /\ reg[q2].monitor[m] = "failed"

\* The workers of request q that have sent their result.
RegSent(q) == {r \in Relays : reg[q].worker[r] \in {"ok", "failed"}}

\* C18: the result channel never holds more results than there are relays;
\* every worker sends one result and is then finished: the results sent
\* are those received and those in the channel; a worker whose POST has
\* returned can always send at once, also after the handler has answered
\* and stopped receiving; and every worker does send and terminate.
C18_WorkersNeverBlock ==
  /\ [](\A q \in RegReqs :
          /\ Len(reg[q].relayRespCh) <= Cardinality(Relays)
          /\ Len(reg[q].got) + Len(reg[q].relayRespCh) = Cardinality(RegSent(q))
          /\ \A r \in Relays :
               reg[q].worker[r] = "posting" => ENABLED (\E ok \in BOOLEAN : RegWorker(q, r, ok)))
  /\ [][\A q \in RegReqs, r \in Relays :
         reg[q].worker[r] \in {"ok", "failed"} => reg'[q].worker[r] = reg[q].worker[r] ]_vars
  /\ \A q \in RegReqs, r \in Relays :
       (reg[q].worker[r] = "posting") ~> (reg[q].worker[r] \in {"ok", "failed"})

\* A request answered 200 on its first result; the other worker sent its
\* result afterwards, and it stays in the channel.
C18_Witness ==
  \E q \in RegReqs :
    /\ reg[q].pc = "done"
    /\ reg[q].status = StatusOK
    /\ Len(reg[q].got) = 1
    /\ RegSent(q) = Relays
    /\ Len(reg[q].relayRespCh) = Cardinality(Relays) - 1

\* C20: a registration is answered once: its status, once written, does not
\* change, and it is written exactly when the handler is done; the handler
\* receives at most one result per relay; and, every relay POST returning,
\* a request whose body decoded is answered.
C20_RegistrationTerminates ==
  /\ [](\A q \in RegReqs :
          /\ reg[q].status # NoStatus <=> reg[q].pc = "done"
          /\ Len(reg[q].got) <= Cardinality(Relays)
          /\ reg[q].i <= Cardinality(Relays))
  /\ [][\A q \in RegReqs :
         reg[q].status # NoStatus =>
           /\ reg'[q].status = reg[q].status
           /\ reg'[q].message = reg[q].message
           /\ reg'[q].got = reg[q].got ]_vars
  /\ \A q \in RegReqs :
       (reg[q].pc = "recv") ~> (reg[q].pc = "done" /\ reg[q].status \in {StatusOK, StatusBadGateway})

\* A request answered 502 after it had received one error per relay.
C20_Witness ==
  \E q \in RegReqs :
    /\ reg[q].pc = "done"
    /\ reg[q].status = StatusBadGateway
    /\ Len(reg[q].got) = Cardinality(Relays)
    /\ \A k \in 1..Len(reg[q].got) : reg[q].got[k] = "err"

(***************************************************************************)
(* Claims about the age of swept entries (SpecCache).                      *)
(***************************************************************************)
\* C19: an entry leaves the bid cache only when its age exceeds 3 minutes;
\* so for 3 minutes after an auction committed its outcome, the cache holds
\* under that key the last outcome committed there, and a getPayload lookup
\* for the key finds it.
C19_YoungEntriesStay ==
  /\ [][\A k \in DOMAIN bids : k \notin DOMAIN bids' => Age(bids[k]) > BidMaxAge]_vars
  /\ [](\A k \in DOMAIN committed :
          Age(committed[k]) <= BidMaxAge =>
            /\ k \in DOMAIN bids
            /\ LookupBid(bids, committed[k].slot, committed[k].blockHash) = committed[k])

\* An entry of age exactly 3 minutes that the sweep of this instant has
\* left in the cache.
C19_Witness ==
  \E k \in DOMAIN bids :
    /\ Age(bids[k]) = BidMaxAge
    /\ sweeper[1] = now + SweepPeriod
    /\ LookupBid(bids, bids[k].slot, bids[k].blockHash) = bids[k]

====
